---- MODULE Spec2Model ----
(***************************************************************************)
(* State-machine model of the agents of DeepRL-Tutorials:                  *)
(*   agents/DQN.py          value-based agent (replay memory, target net)  *)
(*   agents/Dueling_DQN.py  DQN subclass overriding declare_networks       *)
(*   agents/A2C.py          actor-critic agent (rollout window)            *)
(* The networks, the optimizer, the vectorised environment, the epsilon    *)
(* schedule and the replay/rollout stores are collaborators outside the    *)
(* agents' files; they are modelled at their interface.                    *)
(***************************************************************************)
EXTENDS Integers, Sequences, FiniteSets, TLC

VARIABLES
    pc,                \* "new" before __init__, "ready" after it, "error" if it raised
    kind,              \* which Agent class is constructed: "DQN", "Dueling" or "A2C"
    base_attrs,        \* attributes BaseAgent.__init__ leaves on self
    tb_writer,         \* TRUE: a writer object was passed, FALSE: None
    static_policy,
    config,            \* the config object
    envs,              \* the vectorised environment handed to __init__
    env_return,        \* environment side: running return of each instance
    num_actions,
    net_outputs,       \* width of the output layer built by declare_networks
    model,             \* online network parameters
    target_model,      \* target network parameters
    update_count,
    memory,            \* replay memory: [storage, next_idx]
    episode_rewards,
    final_rewards,
    last_100_rewards,
    prev_observations,
    observations,
    actions,
    rewards,
    dones,
    infos,
    rollouts,          \* A2C rollout window
    calls,             \* driver: number of step / update calls made so far
    hist,              \* history: pushes made and the latest of them; learning
                       \* calls made and the online parameters at the latest
                       \* of them whose number is a multiple of the sync period
    lastOp             \* history: what the last call did

agent_vars == <<pc, num_actions, net_outputs, model, target_model, update_count, memory>>
reward_vars == <<episode_rewards, final_rewards, last_100_rewards>>
trans_vars == <<prev_observations, observations, actions, rewards, dones, infos>>
fixed_vars == <<kind, base_attrs, tb_writer, static_policy, config, envs>>
vars == <<agent_vars, reward_vars, trans_vars, fixed_vars, env_return, rollouts, calls, hist, lastOp>>

-----------------------------------------------------------------------------
(* Bounds of the exploration *)

\* step calls made by the driver in one run
MaxSteps == 2
\* update calls made by the driver in one run
MaxUpdates == 4
\* update calls made by the driver of the A2C agent in one run
MaxA2CUpdates == 2

\* network parameter vectors (abstract values)
Params == {0, 1}
\* epsilon values of the schedule and draws of np.random.random(), in tenths
EpsValues == {0, 5, 10}
UniformDraws == {0, 9}
\* caller-supplied global step counts
Tsteps == {0, 1}

NoneVal == <<>>

Envs == 1..config.num_envs

Max2(a, b) == IF a >= b THEN a ELSE b
Min2(a, b) == IF a <= b THEN a ELSE b

-----------------------------------------------------------------------------
(* Collaborators *)

\* networks.DQN / DuelingDQN forward pass: Q-value of action a (0-based) for
\* observation s under parameters p.  A fixed table-like function stands for
\* the black-box network.
QNet(p, s, a) == (3 * p + 2 * s + a * (1 + p + s)) % 4

\* torch.argmax over the action dimension (first maximal index)
RECURSIVE ArgMaxFrom(_, _, _)
ArgMaxFrom(q, a, best) ==
    IF a >= Len(q) THEN best
    ELSE ArgMaxFrom(q, a + 1, IF q[a + 1] > q[best + 1] THEN a ELSE best)

argmax(q) == ArgMaxFrom(q, 1, 0)

\* tensor.max(dim=1)[0]
RECURSIVE MaxFrom(_, _, _)
MaxFrom(q, a, best) ==
    IF a > Len(q) THEN best
    ELSE MaxFrom(q, a + 1, Max2(best, q[a]))

maxq(q) == MaxFrom(q, 2, q[1])

\* self.model(X): the row of Q-values of one observation
Forward(p, s, width) == [a \in 1..width |-> QNet(p, s, a - 1)]

\* utils.ReplayMemory.ExperienceReplayMemory(capacity): an empty ring buffer
NewMemory == [storage |-> <<>>, next_idx |-> 0]

\* ExperienceReplayMemory.push: write at the cursor, the cursor cycles modulo
\* the capacity, a full buffer overwrites its oldest entry
push(mem, transition, capacity) ==
    [storage |-> IF mem.next_idx >= Len(mem.storage)
                 THEN Append(mem.storage, transition)
                 ELSE [mem.storage EXCEPT ![mem.next_idx + 1] = transition],
     next_idx |-> (mem.next_idx + 1) % capacity]

\* ExperienceReplayMemory.sample(batch_size): batch_size indices drawn
\* uniformly, with replacement, from the occupied slots
SampleIndices(mem, batch_size) == [1..batch_size -> 1..Len(mem.storage)]

\* maxlen of last_100_rewards
WindowLen == 100

\* envs.step(actions) of the vectorised environment, from the observations obs
\* the instances are at.  A "free" environment may answer anything: any
\* observation, reward and done flag per instance.  A "chain" environment is a
\* small deterministic task: the observation advances by action + 1 modulo
\* the size of the observation space, an episode ends when it wraps to 0.
\* info carries an "episode" summary only for an instance that just finished
\* an episode (and only under a monitor), with r the return the environment
\* accumulated.
EnvInfo(r, e) == [i \in Envs |-> [episode |-> e[i], r |-> env_return[i] + r[i]]]

FreeOutcomes ==
    { [obs |-> o, reward |-> r, done |-> d, info |-> EnvInfo(r, e)] :
        o \in [Envs -> envs.observation_space],
        r \in [Envs -> envs.reward_range],
        d \in [Envs -> BOOLEAN],
        e \in [Envs -> BOOLEAN] }

ChainOutcome(obs, acts) ==
    LET o == [i \in Envs |-> (obs[i] + acts[i] + 1) % Cardinality(envs.observation_space)]
        r == [i \in Envs |-> (obs[i] + acts[i]) % 2]
        d == [i \in Envs |-> o[i] = 0]
    IN  [obs |-> o, reward |-> r, done |-> d, info |-> EnvInfo(r, d)]

EnvStepOutcomes(obs, acts) ==
    { x \in IF envs.dynamics = "free" THEN FreeOutcomes ELSE {ChainOutcome(obs, acts)} :
        \A i \in Envs : x.info[i].episode = (x.info[i].episode /\ x.done[i] /\ envs.monitor) }

EnvReturnAfter(x) ==
    [i \in Envs |-> IF x.done[i] THEN 0 ELSE env_return[i] + x.reward[i]]

\* envs.reset(): a chain instance starts at its own offset
EnvResetOutcomes ==
    IF envs.dynamics = "free" THEN [Envs -> envs.observation_space]
    ELSE {[i \in Envs |-> (i - 1) % Cardinality(envs.observation_space)]}

-----------------------------------------------------------------------------
(* History records *)

NoHist == [pushes |-> 0, recent |-> <<>>, learn_calls |-> 0, frozen |-> 0]

\* the last n entries of a sequence
LastN(seq, n) == SubSeq(seq, Max2(1, Len(seq) - n + 1), Len(seq))

\* history after the transitions new were pushed, in order: the count, and
\* the capacity-many latest of all pushes
HistPush(h, new) ==
    [h EXCEPT !.pushes = @ + Len(new),
              !.recent = LastN(@ \o new, config.exp_replay_size)]

\* history after a learning call left the online parameters at online
HistLearn(h, online) ==
    [h EXCEPT !.learn_calls = @ + 1,
              !.frozen = IF (h.learn_calls + 1) % config.target_net_update_freq = 0
                         THEN online ELSE @]

NoOp ==
    [op |-> "none", raised |-> FALSE, random |-> FALSE, tstep |-> 0,
     appended |-> FALSE, learned |-> FALSE, synced |-> FALSE, occupancy |-> 0,
     arg |-> <<>>, result |-> <<>>]

-----------------------------------------------------------------------------
(* agents/DQN.py *)

\* Agent.declare_networks of DQN.py: both networks get self.num_actions outputs
declare_networks(n_actions, action_space_n) == n_actions

\* Agent.declare_networks of Dueling_DQN.py: both networks get
\* env.action_space.n outputs
Dueling_declare_networks(n_actions, action_space_n) == action_space_n

\* Agent.declare_networks of Dueling_DQN.py reads self.env, self.noisy and
\* self.sigma_init; DQN.Agent.__init__ sets none of them before the call
DuelingReads == {"env", "noisy", "sigma_init"}

\* attributes DQN.Agent.__init__ has set when declare_networks runs
InitAttrs == {"config", "static_policy", "num_feats", "num_actions", "envs"}

Dueling_declare_networks_raises == ~(DuelingReads \subseteq (base_attrs \cup InitAttrs))

\* Agent.training_priors
ZeroRewards == [i \in Envs |-> 0]

\* Agent.__init__ (DQN.py) and, through super().__init__, Dueling_DQN.py
Construct ==
    /\ pc = "new"
    /\ kind \in {"DQN", "Dueling"}
    /\ num_actions' = envs.action_space_n * config.adaptive_repeat
    /\ IF kind = "Dueling" /\ Dueling_declare_networks_raises
       THEN /\ pc' = "error"
            /\ lastOp' = [NoOp EXCEPT !.op = "construct", !.raised = TRUE]
            /\ UNCHANGED <<net_outputs, model, target_model, update_count, memory,
                           reward_vars, trans_vars, hist>>
       ELSE /\ pc' = "ready"
            /\ net_outputs' = IF kind = "Dueling"
                              THEN Dueling_declare_networks(num_actions', envs.action_space_n)
                              ELSE declare_networks(num_actions', envs.action_space_n)
            /\ model' \in Params
            /\ target_model' = model'
            /\ memory' = NewMemory
            /\ update_count' = 0
            /\ episode_rewards' = ZeroRewards
            /\ last_100_rewards' = <<>>
            /\ prev_observations' = NoneVal /\ actions' = NoneVal
            /\ rewards' = NoneVal /\ dones' = NoneVal
            /\ observations' \in EnvResetOutcomes
            /\ hist' = [hist EXCEPT !.frozen = model']
            /\ lastOp' = [NoOp EXCEPT !.op = "construct"]
            /\ UNCHANGED <<final_rewards, infos>>
    /\ UNCHANGED <<fixed_vars, env_return, rollouts, calls>>

\* mutant: noisy_nets no longer forces the greedy branch
get_action_eps_only(s, eps, u, randacts) ==
    IF u > eps \/ static_policy
    THEN [i \in Envs |-> argmax(Forward(model, s[i], net_outputs))]
    ELSE randacts

\* mutant: any episode end resets every accumulator
step_episode_rewards_all(acc, r, d) ==
    [idx \in Envs |-> IF \E j \in Envs : d[j] THEN 0 ELSE acc[idx] + r[idx]]

\* mutant: a full window drops the new entry instead of the oldest
deque_append_keep(d, x, maxlen) ==
    IF Len(d) >= maxlen THEN d ELSE Append(d, x)

\* collections.deque(maxlen).append
deque_append(d, x, maxlen) ==
    IF Len(d) >= maxlen THEN Append(Tail(d), x) ELSE Append(d, x)

\* the test of line 257: greedy branch or random branch
greedy(eps, u) == u > eps \/ static_policy \/ config.noisy_nets

\* Agent.get_action(s, eps): u is the draw of np.random.random() in tenths,
\* randacts the draw of np.random.randint(0, num_actions, n)
get_action(s, eps, u, randacts) ==
    IF greedy(eps, u)
    THEN [i \in Envs |-> argmax(Forward(model, s[i], net_outputs))]
    ELSE randacts

\* the reset loop of Agent.step (lines 295-303)
step_episode_rewards(acc, r, d) ==
    LET added == [i \in Envs |-> acc[i] + r[i]]
    IN  [idx \in Envs |-> IF d[idx] THEN 0 ELSE added[idx]]

\* the info loop of Agent.step (lines 305-309)
RECURSIVE record_episodes(_, _, _)
record_episodes(window, info, i) ==
    IF i > Len(info) THEN window
    ELSE record_episodes(IF info[i].episode
                         THEN deque_append(window, info[i].r, WindowLen)
                         ELSE window,
                         info, i + 1)

\* Agent.step(current_tstep)
step ==
    /\ pc = "ready" /\ kind \in {"DQN", "Dueling"}
    /\ calls.step < MaxSteps
    /\ calls' = [calls EXCEPT !.step = @ + 1]
    /\ \E eps \in EpsValues, u \in UniformDraws :
         IF ~tb_writer
         THEN \* self.tb_writer.add_scalar on None raises
              /\ lastOp' = [NoOp EXCEPT !.op = "step", !.raised = TRUE]
              /\ UNCHANGED <<agent_vars, reward_vars, trans_vars, env_return, hist>>
         ELSE \E randacts \in [Envs -> 0..(num_actions - 1)] :
              LET acts == get_action(observations, eps, u, randacts) IN
              \E x \in EnvStepOutcomes(observations, acts) :
              /\ actions' = acts
              /\ prev_observations' = observations
              /\ observations' = x.obs
              /\ rewards' = x.reward
              /\ dones' = x.done
              /\ infos' = x.info
              /\ env_return' = EnvReturnAfter(x)
              /\ episode_rewards' = step_episode_rewards(episode_rewards, x.reward, x.done)
              /\ last_100_rewards' = record_episodes(last_100_rewards, x.info, 1)
              /\ lastOp' = [NoOp EXCEPT !.op = "step", !.random = ~greedy(eps, u),
                                       !.arg = [obs |-> observations, actions |-> acts],
                                       !.result = x]
              /\ UNCHANGED <<agent_vars, final_rewards, hist>>
    /\ UNCHANGED <<fixed_vars, rollouts>>

\* mutant: the action of a transition is taken from the mirrored environment
RECURSIVE append_to_replay_crossed(_, _, _, _, _, _, _)
append_to_replay_crossed(mem, s, a, r, s_, t, i) ==
    IF i > Len(s) THEN mem
    ELSE append_to_replay_crossed(push(mem, <<s[i], a[Len(s) + 1 - i], r[i], s_[i], t[i]>>,
                                       config.exp_replay_size),
                                  s, a, r, s_, t, i + 1)

\* mutant: only the first environment's transition is pushed
append_to_replay_first(mem, s, a, r, s_, t, i) ==
    push(mem, <<s[1], a[1], r[1], s_[1], t[1]>>, config.exp_replay_size)

\* Agent.append_to_replay(s, a, r, s_, t): one push per environment, in order
RECURSIVE append_to_replay(_, _, _, _, _, _, _)
append_to_replay(mem, s, a, r, s_, t, i) ==
    IF i > Len(s) THEN mem
    ELSE append_to_replay(push(mem, <<s[i], a[i], r[i], s_[i], t[i]>>,
                               config.exp_replay_size),
                          s, a, r, s_, t, i + 1)

\* the transitions one update call pushes, in push order (history)
Transitions(s, a, r, s_, t) == [i \in 1..Len(s) |-> <<s[i], a[i], r[i], s_[i], t[i]>>]

\* self.dones.astype(int)
astype_int(d) == [i \in 1..Len(d) |-> IF d[i] THEN 1 ELSE 0]

\* Agent.prep_minibatch: the sampled transitions
prep_minibatch(mem, indices) == [k \in 1..Len(indices) |-> mem.storage[indices[k]]]

\* .gather(1, batch_action) on a row of net_outputs values raises for an
\* index outside the row
gather_raises(batch) == \E k \in 1..Len(batch) : batch[k][2] >= net_outputs

\* mutant: the bootstrap term is taken from the online network
target_value_online(tr) ==
    tr[3] + config.gamma * maxq(Forward(model, tr[4], net_outputs)) * (1 - tr[5])

\* Agent.compute_loss, lines 176-179: the regression target of one transition
target_value(tr) ==
    LET next_q_values ==
            config.gamma * maxq(Forward(target_model, tr[4], net_outputs)) * (1 - tr[5])
    IN  tr[3] + next_q_values

\* Agent.compute_loss, line 164: the estimate of one transition
current_q_value(tr) == QNet(model, tr[1], tr[2])

\* Agent.compute_loss over the minibatch: the targets the loss regresses to
compute_loss(batch) == [k \in 1..Len(batch) |-> target_value(batch[k])]

\* loss.backward(), clip_grad_norm_ and optimizer.step() (lines 217-220): the
\* online parameters the optimizer may leave, whatever the loss
optimizer_step(online, loss) == Params

\* Agent.update_target_model: the counter
next_update_count == (update_count + 1) % config.target_net_update_freq

\* mutant: the target follows the online network in every learning call
update_target_model_always(online) == online

\* mutant: the sync fires one call late (counter compared with 1)
update_target_model_late(online) == IF next_update_count = 1 THEN online ELSE target_model

\* Agent.update_target_model: the target parameters, given the online
\* parameters after the optimizer step
update_target_model(online) == IF next_update_count = 0 THEN online ELSE target_model

\* mutant: the gate never returns early
before_learn_start_never(tstep) == FALSE

\* Agent.update_, line 209: the early return before learning starts
before_learn_start(tstep) == tstep < config.learn_start

\* Agent.update(current_tstep), with Agent.update_ inlined
update ==
    /\ pc = "ready" /\ kind \in {"DQN", "Dueling"}
    /\ calls.update < MaxUpdates
    /\ calls' = [calls EXCEPT !.update = @ + 1]
    /\ \E tstep \in Tsteps :
         LET base == [NoOp EXCEPT !.op = "update", !.tstep = tstep] IN
         IF dones = NoneVal
         THEN \* self.dones is None before the first step: .astype raises
              /\ lastOp' = [base EXCEPT !.raised = TRUE]
              /\ UNCHANGED <<agent_vars, hist>>
         ELSE IF static_policy
         THEN /\ lastOp' = base
              /\ UNCHANGED <<agent_vars, hist>>
         ELSE
           LET t == astype_int(dones)
               mem == append_to_replay(memory, prev_observations, actions, rewards,
                                       observations, t, 1)
               pushed == HistPush(hist, Transitions(prev_observations, actions, rewards,
                                                    observations, t))
           IN
           /\ memory' = mem
           /\ IF before_learn_start(tstep)
              THEN /\ lastOp' = [base EXCEPT !.appended = TRUE]
                   /\ hist' = pushed
                   /\ UNCHANGED <<pc, num_actions, net_outputs, model, target_model,
                                  update_count>>
              ELSE \E indices \in SampleIndices(mem, config.batch_size) :
                   LET batch == prep_minibatch(mem, indices)
                       sampled == [base EXCEPT !.appended = TRUE,
                                               !.occupancy = Len(mem.storage)]
                   IN
                   IF gather_raises(batch)
                   THEN /\ lastOp' = [sampled EXCEPT !.raised = TRUE]
                        /\ hist' = pushed
                        /\ UNCHANGED <<pc, num_actions, net_outputs, model, target_model,
                                       update_count>>
                   ELSE \E stepped \in optimizer_step(model, compute_loss(batch)) :
                        /\ model' = stepped
                        /\ update_count' = next_update_count
                        /\ target_model' = update_target_model(stepped)
                        /\ lastOp' = [sampled EXCEPT !.learned = TRUE,
                                                     !.synced = (next_update_count = 0)]
                        /\ hist' = HistLearn(pushed, stepped)
                        /\ UNCHANGED <<pc, num_actions, net_outputs>>
    /\ UNCHANGED <<fixed_vars, reward_vars, trans_vars, env_return, rollouts>>

-----------------------------------------------------------------------------
(* The DQN / Dueling-DQN agent driven by any sequence of step and update calls *)

\* the configurations explored: every sync period with one environment, the
\* period 2 with two
ConfigSpace ==
    [num_envs : {1, 2}, learn_start : {1}, batch_size : {2},
     target_net_update_freq : {1, 2, 3}, exp_replay_size : {3},
     noisy_nets : {FALSE}, gamma : {1}, adaptive_repeat : {1}]

Configs ==
    { c \in ConfigSpace : c.num_envs > 1 => c.target_net_update_freq = 2 }

\* the environments explored
EnvProfiles ==
    [action_space_n : {2}, observation_space : {{0, 1, 2}}, reward_range : {{0, 1}},
     monitor : {TRUE}, dynamics : {"chain"}]

\* what BaseAgent.__init__ may leave on self
BaseAttrs == {{"tb_writer"}, {"tb_writer", "env", "noisy", "sigma_init"}}

NewAgent ==
    /\ pc = "new"
    /\ num_actions = 0 /\ net_outputs = 0
    /\ model = 0 /\ target_model = 0 /\ update_count = 0
    /\ memory = NewMemory
    /\ episode_rewards = <<>> /\ final_rewards = <<>> /\ last_100_rewards = <<>>
    /\ prev_observations = NoneVal /\ observations = NoneVal /\ actions = NoneVal
    /\ rewards = NoneVal /\ dones = NoneVal /\ infos = NoneVal
    /\ rollouts = <<>>
    /\ calls = [step |-> 0, update |-> 0]
    /\ hist = NoHist
    /\ lastOp = NoOp

\* The arguments of the constructor call.  Dueling_DQN.Agent.__init__ has no
\* tb_writer parameter and passes none on, so a Dueling agent never has one;
\* what BaseAgent.__init__ leaves on self is open (BaseAttrs).
Init ==
    /\ kind \in {"DQN", "Dueling"}
    /\ base_attrs \in IF kind = "Dueling" THEN BaseAttrs ELSE {{"tb_writer"}}
    /\ tb_writer \in IF kind = "Dueling" THEN {FALSE} ELSE BOOLEAN
    /\ static_policy \in BOOLEAN
    /\ config \in Configs
    /\ envs \in EnvProfiles
    /\ env_return = [i \in 1..config.num_envs |-> 0]
    /\ NewAgent

Next == Construct \/ step \/ update

Spec == Init /\ [][Next]_vars

-----------------------------------------------------------------------------
(* A single method call on a constructed DQN agent *)

\* transitions a minibatch may hold
TransitionSpace ==
    { <<s, a, r, s_, term>> :
        s \in envs.observation_space, a \in 0..(num_actions - 1),
        r \in envs.reward_range, s_ \in envs.observation_space, term \in {0, 1} }

\* a call of Agent.get_action(s, eps)
get_action_call ==
    /\ pc = "ready" /\ kind = "DQN"
    /\ lastOp.op = "none"
    /\ \E s \in [Envs -> envs.observation_space], eps \in EpsValues, u \in UniformDraws :
       \E randacts \in [Envs -> 0..(num_actions - 1)] :
         lastOp' = [NoOp EXCEPT !.op = "get_action",
                                !.random = ~greedy(eps, u),
                                !.arg = [s |-> s, eps |-> eps, randacts |-> randacts],
                                !.result = get_action(s, eps, u, randacts)]
    /\ UNCHANGED <<agent_vars, reward_vars, trans_vars, fixed_vars, env_return,
                   rollouts, calls, hist>>

\* a call of Agent.compute_loss(batch_vars, tstep)
compute_loss_call ==
    /\ pc = "ready" /\ kind = "DQN"
    /\ lastOp.op = "none"
    /\ \E batch \in [1..config.batch_size -> TransitionSpace] :
         lastOp' = [NoOp EXCEPT !.op = "compute_loss",
                                !.raised = gather_raises(batch),
                                !.arg = batch,
                                !.result = IF gather_raises(batch) THEN <<>>
                                           ELSE compute_loss(batch)]
    /\ UNCHANGED <<agent_vars, reward_vars, trans_vars, fixed_vars, env_return,
                   rollouts, calls, hist>>

CallConfigs ==
    [num_envs : {1, 2}, learn_start : {1}, batch_size : {1, 2},
     target_net_update_freq : {2}, exp_replay_size : {3},
     noisy_nets : BOOLEAN, gamma : {0, 1, 2}, adaptive_repeat : {1}]

CallEnvs ==
    [action_space_n : {2}, observation_space : {{0, 1}}, reward_range : {{0, 1}},
     monitor : {TRUE}, dynamics : {"free"}]

\* a DQN agent as __init__ and any number of learning calls may leave it
CallInit ==
    /\ kind = "DQN" /\ base_attrs = {"tb_writer"} /\ tb_writer = TRUE
    /\ static_policy \in BOOLEAN
    /\ config \in CallConfigs
    /\ envs \in CallEnvs
    /\ env_return = [i \in 1..config.num_envs |-> 0]
    /\ pc = "ready"
    /\ num_actions = envs.action_space_n * config.adaptive_repeat
    /\ net_outputs = declare_networks(num_actions, envs.action_space_n)
    /\ model \in Params /\ target_model \in Params /\ update_count = 0
    /\ memory = NewMemory
    /\ episode_rewards = [i \in 1..config.num_envs |-> 0]
    /\ final_rewards = <<>> /\ last_100_rewards = <<>>
    /\ prev_observations = NoneVal /\ actions = NoneVal
    /\ rewards = NoneVal /\ dones = NoneVal /\ infos = NoneVal
    /\ observations = [i \in 1..config.num_envs |-> 0]
    /\ rollouts = <<>>
    /\ calls = [step |-> 0, update |-> 0]
    /\ hist = NoHist
    /\ lastOp = NoOp

CallNext == get_action_call \/ compute_loss_call

SpecCalls == CallInit /\ [][CallNext]_vars

-----------------------------------------------------------------------------
(* agents/A2C.py *)

\* utils.RolloutStorage.RolloutStorage(update_freq, num_envs, ...): a window
\* of update_freq + 1 observation, mask and return slots and update_freq
\* reward and action slots; slot 0 of the observations is filled by
\* training_priors
NewRollouts(first_obs) ==
    [observations |-> [k \in 1..(config.update_freq + 1) |->
                          IF k = 1 THEN first_obs ELSE [i \in Envs |-> 0]],
     masks |-> [k \in 1..(config.update_freq + 1) |-> [i \in Envs |-> 1]],
     rewards |-> [k \in 1..config.update_freq |-> [i \in Envs |-> 0]],
     actions |-> [k \in 1..config.update_freq |-> [i \in Envs |-> 0]],
     returns |-> [k \in 1..(config.update_freq + 1) |-> [i \in Envs |-> 0]],
     step |-> 0]

\* RolloutStorage.insert: the observation and mask go to slot step + 1, the
\* action and reward to slot step, the pointer advances modulo update_freq
insert(ro, obs, acts, rew, masks) ==
    [observations |-> [ro.observations EXCEPT ![ro.step + 2] = obs],
     masks |-> [ro.masks EXCEPT ![ro.step + 2] = masks],
     rewards |-> [ro.rewards EXCEPT ![ro.step + 1] = rew],
     actions |-> [ro.actions EXCEPT ![ro.step + 1] = acts],
     returns |-> ro.returns,
     step |-> (ro.step + 1) % config.update_freq]

\* obs if s_norm is None (0 here) else obs / s_norm
s_normalise(obs) ==
    IF config.s_norm = 0 THEN obs ELSE [i \in 1..Len(obs) |-> obs[i] \div config.s_norm]

\* mutant: no environment is ever masked
done_masks_ones(d) == [i \in 1..Len(d) |-> 1]

\* masks = 1. - done.astype(np.float32)
done_masks(d) == [i \in 1..Len(d) |-> IF d[i] THEN 0 ELSE 1]

\* Agent.step, lines 179-183: the accumulators after the step
A2C_episode_rewards(acc, r, masks) ==
    LET added == [i \in Envs |-> acc[i] + r[i]]
    IN  [i \in Envs |-> added[i] * masks[i]]

A2C_final_rewards(final, acc, r, masks) ==
    LET added == [i \in Envs |-> acc[i] + r[i]]
    IN  [i \in Envs |-> final[i] * masks[i] + (1 - masks[i]) * added[i]]

\* Agent.step(current_timestep, step) of A2C.py.  The actions are drawn from
\* the categorical distribution of the policy, which gives every action a
\* positive probability; the values, log-probabilities and recurrent states
\* the network returns are opaque and left out of the window.  Without a
\* tb_writer the info loop raises at the first environment that reports an
\* episode summary (after recording it) or a done flag, and nothing is
\* inserted.
A2C_step ==
    /\ pc = "ready" /\ kind = "A2C"
    /\ calls.step < MaxSteps
    /\ calls' = [calls EXCEPT !.step = @ + 1]
    /\ \E acts \in [Envs -> 0..(num_actions - 1)] :
       \E x \in EnvStepOutcomes(observations, acts) :
         LET obs == s_normalise(x.obs)
             masks == done_masks(x.done)
         IN
         /\ actions' = acts
         /\ observations' = x.obs
         /\ rewards' = x.reward
         /\ dones' = x.done
         /\ infos' = x.info
         /\ env_return' = EnvReturnAfter(x)
         /\ episode_rewards' = A2C_episode_rewards(episode_rewards, x.reward, masks)
         /\ final_rewards' = A2C_final_rewards(final_rewards, episode_rewards,
                                               x.reward, masks)
         /\ IF ~tb_writer /\ \E i \in Envs : x.info[i].episode \/ x.done[i]
            THEN LET first == CHOOSE i \in Envs :
                                /\ x.info[i].episode \/ x.done[i]
                                /\ \A j \in 1..(i - 1) : ~(x.info[j].episode \/ x.done[j])
                 IN
                 /\ last_100_rewards' = IF x.info[first].episode
                                        THEN deque_append(last_100_rewards,
                                                          x.info[first].r, WindowLen)
                                        ELSE last_100_rewards
                 /\ rollouts' = rollouts
                 /\ lastOp' = [NoOp EXCEPT !.op = "step", !.raised = TRUE]
            ELSE /\ last_100_rewards' = record_episodes(last_100_rewards, x.info, 1)
                 /\ rollouts' = insert(rollouts, [i \in Envs |-> obs[i] * masks[i]],
                                       acts, x.reward, masks)
                 /\ lastOp' = [NoOp EXCEPT !.op = "step"]
    /\ UNCHANGED <<agent_vars, fixed_vars, prev_observations, hist>>

\* networks.ActorCritic value head: the value of observation s under
\* parameters p with mask m.  A fixed table-like function stands for the
\* black-box network.
VNet(p, s, m) == (2 * p + s + m) % 3

\* Agent.get_values on the last window slot (lines 204-206)
get_values(p, ro) ==
    [i \in Envs |-> VNet(p, ro.observations[config.update_freq + 1][i],
                            ro.masks[config.update_freq + 1][i])]

\* RolloutStorage.compute_returns(next_value, gamma), no-GAE path: the
\* backward recursion return[t] = reward[t] + gamma * return[t+1] * mask[t+1]
\* seeded with return[T] = next_value
RECURSIVE ReturnAt(_, _, _)
ReturnAt(ro, next_value, t) ==
    IF t > config.update_freq THEN next_value
    ELSE LET later == ReturnAt(ro, next_value, t + 1)
         IN  [i \in Envs |-> ro.rewards[t][i] + config.gamma * later[i] * ro.masks[t + 1][i]]

compute_returns(ro, next_value) ==
    [ro EXCEPT !.returns = [t \in 1..(config.update_freq + 1) |-> ReturnAt(ro, next_value, t)]]

\* RolloutStorage.after_update: the last slot's observation and mask become
\* slot 0 of the next window
after_update(ro) ==
    [ro EXCEPT !.observations[1] = ro.observations[config.update_freq + 1],
               !.masks[1] = ro.masks[config.update_freq + 1]]

\* what Agent.evaluate_actions is given by compute_loss (lines 103-107) and
\* the returns the advantages are taken against (line 112)
evaluated(ro) ==
    [observations |-> SubSeq(ro.observations, 1, config.update_freq),
     masks |-> SubSeq(ro.masks, 1, config.update_freq),
     actions |-> ro.actions,
     returns |-> SubSeq(ro.returns, 1, config.update_freq)]

\* mutant: learning is not gated
A2C_learns_always(tstep) == TRUE

\* Agent.update of A2C.py, line 208
A2C_learns(tstep) == tstep >= config.learn_start

\* Agent.update(current_tstep) of A2C.py, with update_ and compute_loss
\* inlined.  result.trace lists the calls made, in order; without a tb_writer
\* compute_loss raises at its first add_scalar, after the returns were filled.
A2C_update ==
    /\ pc = "ready" /\ kind = "A2C"
    /\ calls.update < MaxA2CUpdates
    /\ calls' = [calls EXCEPT !.update = @ + 1]
    /\ \E tstep \in Tsteps :
         LET next_value == get_values(model, rollouts)
             base == [NoOp EXCEPT !.op = "update", !.tstep = tstep]
         IN
         IF A2C_learns(tstep)
         THEN LET ro == compute_returns(rollouts, next_value) IN
              IF ~tb_writer
              THEN /\ rollouts' = ro
                   /\ model' = model
                   /\ lastOp' = [base EXCEPT
                          !.raised = TRUE,
                          !.result = [next_value |-> next_value,
                                      trace |-> <<"get_values", "compute_returns",
                                                  "evaluate_actions">>]]
              ELSE \E stepped \in optimizer_step(model, evaluated(ro)) :
                   /\ model' = stepped
                   /\ rollouts' = after_update(ro)
                   /\ lastOp' = [base EXCEPT
                          !.learned = TRUE,
                          !.arg = evaluated(ro),
                          !.result = [next_value |-> next_value,
                                      trace |-> <<"get_values", "compute_returns",
                                                  "evaluate_actions", "optimizer.step",
                                                  "after_update">>]]
         ELSE /\ model' = model
              /\ rollouts' = after_update(rollouts)
              /\ lastOp' = [base EXCEPT
                     !.result = [next_value |-> next_value,
                                 trace |-> <<"get_values", "after_update">>]]
    /\ UNCHANGED <<pc, num_actions, net_outputs, target_model, update_count, memory,
                   reward_vars, trans_vars, fixed_vars, env_return, hist>>

-----------------------------------------------------------------------------
(* The A2C agent driven by any sequence of step and update calls *)

\* the observations explored are multiples of s_norm, so the division is exact
A2CConfigs ==
    [num_envs : {2}, learn_start : {1}, batch_size : {2},
     target_net_update_freq : {2}, exp_replay_size : {3},
     noisy_nets : {FALSE}, gamma : {1}, adaptive_repeat : {1},
     update_freq : {2}, s_norm : {0, 2}]

A2CEnvs ==
    [action_space_n : {1}, observation_space : {{2, 4}}, reward_range : {{1}},
     monitor : {FALSE}, dynamics : {"free"}]

\* an A2C agent as __init__ leaves it: with or without a tb_writer when
\* s_norm is None, with one when it is set; envs.reset() returned the
\* observation 2 * i for instance i
A2CInit ==
    /\ kind = "A2C" /\ base_attrs = {"tb_writer"}
    /\ static_policy = FALSE
    /\ config \in A2CConfigs
    /\ tb_writer \in IF config.s_norm = 0 THEN BOOLEAN ELSE {TRUE}
    /\ envs \in A2CEnvs
    /\ env_return = [i \in 1..config.num_envs |-> 0]
    /\ pc = "ready"
    /\ num_actions = envs.action_space_n * config.adaptive_repeat
    /\ net_outputs = num_actions
    /\ model = 0 /\ target_model = 0 /\ update_count = 0
    /\ memory = NewMemory
    /\ episode_rewards = [i \in 1..config.num_envs |-> 0]
    /\ final_rewards = [i \in 1..config.num_envs |-> 0]
    /\ last_100_rewards = <<>>
    /\ prev_observations = NoneVal /\ actions = NoneVal
    /\ rewards = NoneVal /\ dones = NoneVal /\ infos = NoneVal
    /\ observations = [i \in 1..config.num_envs |-> 2 * i]
    /\ rollouts = NewRollouts(s_normalise(observations))
    /\ calls = [step |-> 0, update |-> 0]
    /\ hist = NoHist
    /\ lastOp = NoOp

A2CNext == A2C_step \/ A2C_update

SpecA2C == A2CInit /\ [][A2CNext]_vars

-----------------------------------------------------------------------------
(* The step call of both agents, from a fresh agent or from one that has *)
(* already seen WindowLen - 1 or WindowLen episodes end                   *)

StepConfigs ==
    [num_envs : {2}, learn_start : {1}, batch_size : {2},
     target_net_update_freq : {2}, exp_replay_size : {3},
     noisy_nets : {FALSE}, gamma : {1}, adaptive_repeat : {1},
     update_freq : {2}, s_norm : {0}]

StepEnvs ==
    [action_space_n : {1}, observation_space : {{1}}, reward_range : {{-1, 2}},
     monitor : {TRUE}, dynamics : {"free"}]

\* returns recorded by earlier episodes
EarlierEpisodes == {<<>>, [k \in 1..(WindowLen - 1) |-> k]}

StepInit ==
    /\ kind \in {"DQN", "A2C"} /\ base_attrs = {"tb_writer"} /\ tb_writer = TRUE
    /\ static_policy = FALSE
    /\ config \in StepConfigs
    /\ envs \in StepEnvs
    /\ env_return = [i \in 1..config.num_envs |-> 0]
    /\ pc = "ready"
    /\ num_actions = envs.action_space_n * config.adaptive_repeat
    /\ net_outputs = num_actions
    /\ model = 0 /\ target_model = model /\ update_count = 0
    /\ memory = NewMemory
    /\ episode_rewards = [i \in 1..config.num_envs |-> 0]
    /\ final_rewards = IF kind = "A2C" THEN [i \in 1..config.num_envs |-> 0] ELSE <<>>
    /\ last_100_rewards \in EarlierEpisodes
    /\ prev_observations = NoneVal /\ actions = NoneVal
    /\ rewards = NoneVal /\ dones = NoneVal /\ infos = NoneVal
    /\ observations \in EnvResetOutcomes
    /\ rollouts = IF kind = "A2C" THEN NewRollouts(s_normalise(observations)) ELSE <<>>
    /\ calls = [step |-> 0, update |-> 0]
    /\ hist = [NoHist EXCEPT !.frozen = model]
    /\ lastOp = NoOp

StepNext == step \/ A2C_step

SpecStep == StepInit /\ [][StepNext]_vars

-----------------------------------------------------------------------------
(* Properties *)

K == config.target_net_update_freq

\* C1: with target_net_update_freq = K, after the n-th learning call the
\* target parameters equal the online parameters as they were after the
\* latest learning call whose number is a multiple of K (construction, if
\* there was none): equal to the online parameters right after calls K, 2K,
\* ..., frozen in between.
C1_TargetSyncCadence ==
    pc = "ready" =>
        /\ target_model = hist.frozen
        /\ (hist.learn_calls % K = 0 => target_model = model)

\* C1 witness: K = 2, three learning calls made, the target still holds the
\* value synced at call 2 while the online parameters have moved on
C1_Witness ==
    /\ K = 2 /\ hist.learn_calls = 3 /\ lastOp.learned
    /\ target_model # model

\* C2: an update call learns only when static_policy is false and the
\* supplied step count is >= learn_start; an update call that does not learn
\* leaves model, target_model and update_count alone; a non-static call
\* below learn_start still appends the transition of every environment.
C2_LearnGate ==
    [][lastOp'.op = "update" =>
        /\ (model' # model \/ update_count' # update_count \/ lastOp'.learned)
              => (~static_policy /\ lastOp'.tstep >= config.learn_start)
        /\ ~lastOp'.learned
              => (model' = model /\ target_model' = target_model
                  /\ update_count' = update_count)
        /\ (~static_policy /\ ~lastOp'.raised /\ lastOp'.tstep < config.learn_start)
              => /\ Len(memory'.storage)
                      = Min2(Len(memory.storage) + config.num_envs, config.exp_replay_size)
                 /\ \A i \in Envs :
                      \E k \in 1..Len(memory'.storage) :
                         memory'.storage[k] = <<prev_observations[i], actions[i], rewards[i],
                                                observations[i], IF dones[i] THEN 1 ELSE 0>>
      ]_vars

\* C2 witness: a non-static update below learn_start has appended and not learned
C2_Witness ==
    /\ lastOp.op = "update" /\ ~static_policy /\ ~lastOp.raised
    /\ lastOp.tstep < config.learn_start
    /\ ~lastOp.learned /\ Len(memory.storage) > 0
    /\ hist.learn_calls >= 1 /\ update_count # 0

\* C3: the target parameters change only in construction or in an update
\* call whose hard sync fires (the counter wraps to 0), and then to the
\* online parameters; no step call and no other update call changes them.
C3_TargetFrame ==
    [][target_model' # target_model =>
        \/ lastOp'.op = "construct"
        \/ /\ lastOp'.op = "update" /\ lastOp'.learned
           /\ update_count' = 0
           /\ target_model' = model'
      ]_vars

\* C3 witness: a learning call without sync moved the online parameters and
\* left the target alone
C3_Witness ==
    /\ lastOp.op = "update" /\ lastOp.learned /\ ~lastOp.synced
    /\ K = 3 /\ update_count = 1
    /\ model # target_model

\* the replay memory's content, oldest first
Ordered(mem) ==
    IF Len(mem.storage) < config.exp_replay_size THEN mem.storage
    ELSE SubSeq(mem.storage, mem.next_idx + 1, Len(mem.storage))
         \o SubSeq(mem.storage, 1, mem.next_idx)

\* C4: the memory holds min(pushes, capacity) transitions, and they are the
\* most recently pushed ones in push order
C4_ReplayFifo ==
    pc = "ready" =>
        /\ Len(memory.storage) = Min2(hist.pushes, config.exp_replay_size)
        /\ Ordered(memory) = hist.recent
        /\ hist.pushes % config.num_envs = 0

\* C4 witness: two environments, more transitions pushed than the capacity,
\* the write cursor in mid-buffer, the retained transitions not all alike
C4_Witness ==
    /\ config.num_envs = 2
    /\ hist.pushes > config.exp_replay_size
    /\ memory.next_idx # 0
    /\ memory.storage[1] # memory.storage[2]

\* C5: whenever a minibatch is sampled, the memory holds at least batch_size
\* transitions
C5_SampleWithinOccupancy ==
    (lastOp.op = "update" /\ lastOp.occupancy > 0) => lastOp.occupancy >= config.batch_size

\* whether action a has the largest Q-value of the network with parameters p
\* at observation s
IsBest(p, s, a) == \A b \in 0..(net_outputs - 1) : QNet(p, s, a) >= QNet(p, s, b)

\* C6: with noisy_nets or static_policy set, get_action returns for every
\* environment an action of maximal online Q-value, whatever epsilon is; the
\* random branch is taken, and an action that is not maximal returned, only
\* with both flags off.
C6_GreedyUnderNoisyOrStatic ==
    lastOp.op = "get_action" =>
        LET s == lastOp.arg.s
            a == lastOp.result
        IN  /\ \A i \in Envs : a[i] \in 0..(num_actions - 1)
            /\ (static_policy \/ config.noisy_nets)
                  => \A i \in Envs : IsBest(model, s[i], a[i])
            /\ (lastOp.random \/ \E i \in Envs : ~IsBest(model, s[i], a[i]))
                  => (~static_policy /\ ~config.noisy_nets /\ a = lastOp.arg.randacts)

\* C6 witness: noisy_nets on, epsilon = 1, and the greedy action returned
\* differs from the random draw that an epsilon-greedy choice would have used
C6_Witness ==
    /\ lastOp.op = "get_action"
    /\ config.noisy_nets /\ ~static_policy
    /\ lastOp.arg.eps = 10
    /\ config.num_envs = 2
    /\ lastOp.result # lastOp.arg.randacts
    /\ lastOp.result[1] # lastOp.result[2]

\* a step call has just returned
Stepped == lastOp'.op = "step" /\ ~lastOp'.raised /\ calls'.step = calls.step + 1

\* C7: after a step call of the DQN or the A2C agent, the accumulator of an
\* environment that reported done is 0 and that of any other environment is
\* its old value plus the step's reward.
C7_EpisodeRewards ==
    [][Stepped =>
        \A i \in Envs :
            episode_rewards'[i] = IF dones'[i] THEN 0
                                  ELSE episode_rewards[i] + rewards'[i]
      ]_vars

\* C7 witness: second step of an A2C agent, environment 1 ended its episode
\* and is back at 0, environment 2 goes on with a non-zero accumulator
C7_Witness ==
    /\ kind = "A2C" /\ lastOp.op = "step" /\ calls.step = 2
    /\ dones = <<TRUE, FALSE>>
    /\ episode_rewards[1] = 0 /\ episode_rewards[2] = 4
    /\ final_rewards[1] # 0

HasEpisode(inf) == inf.episode

\* the returns reported in the infos of a step, in environment order
Reported(info) ==
    LET with == SelectSeq(info, HasEpisode)
    IN  [k \in 1..Len(with) |-> with[k].r]

\* C8 as stated: a step records one entry per environment whose done flag is set
C8_RecordedPerDone ==
    [][Stepped =>
        Len(last_100_rewards')
            = Min2(WindowLen,
                   Len(last_100_rewards) + Cardinality({i \in Envs : dones'[i]}))
      ]_vars

\* C8 amended: a step records exactly the returns reported under the
\* "episode" key of its infos, one per such environment in environment
\* order, and nothing for the others, done or not; the window keeps the
\* latest WindowLen entries.
C8_RecordedPerEpisodeInfo ==
    [][Stepped =>
        /\ last_100_rewards' = LastN(last_100_rewards \o Reported(infos'), WindowLen)
        /\ Len(last_100_rewards') <= WindowLen
        /\ Len(Reported(infos')) = Cardinality({i \in Envs : infos'[i].episode})
      ]_vars

\* C8 witness: a DQN step in which both environments report an episode while
\* the window already holds WindowLen - 1 entries: the 101st entry pushed the
\* oldest one out
C8_Witness ==
    /\ kind = "DQN" /\ lastOp.op = "step" /\ calls.step = 1
    /\ infos[1].episode /\ infos[2].episode
    /\ Len(last_100_rewards) = WindowLen
    /\ last_100_rewards[1] = 2
    /\ last_100_rewards[WindowLen] = infos[2].r

\* C9: a Dueling agent constructs, and its step calls run as the DQN agent's do
C9_DuelingBehavesAsDQN ==
    kind = "Dueling" =>
        /\ pc # "error"
        /\ ~(lastOp.op = "step" /\ lastOp.raised)

\* the largest Q-value of the network with parameters p at observation s
BestQ(p, s) ==
    CHOOSE q \in {QNet(p, s, b) : b \in 0..(net_outputs - 1)} :
        \A b \in 0..(net_outputs - 1) : q >= QNet(p, s, b)

\* C10: the regression target of every transition of the minibatch is
\* reward + gamma * (1 - terminal) * max_a Q_target(next_state, a); for a
\* terminal transition it is the reward.
C10_RegressionTarget ==
    (lastOp.op = "compute_loss" /\ ~lastOp.raised) =>
        /\ Len(lastOp.result) = Len(lastOp.arg)
        /\ \A k \in 1..Len(lastOp.arg) :
             LET tr == lastOp.arg[k] IN
             /\ lastOp.result[k]
                   = tr[3] + config.gamma * (1 - tr[5]) * BestQ(target_model, tr[4])
             /\ tr[5] = 1 => lastOp.result[k] = tr[3]

\* C10 witness: online and target parameters differ, gamma = 2; the batch
\* holds a terminal transition whose target is its reward and a non-terminal
\* one whose target is not what the online network would give
C10_Witness ==
    /\ lastOp.op = "compute_loss" /\ Len(lastOp.arg) = 2
    /\ model # target_model /\ config.gamma = 2
    /\ lastOp.arg[1][5] = 1 /\ lastOp.arg[1][3] = 1 /\ lastOp.result[1] = 1
    /\ lastOp.arg[2][5] = 0
    /\ lastOp.result[2] # lastOp.arg[2][3] + 2 * BestQ(model, lastOp.arg[2][4])
    /\ lastOp.result[2] > lastOp.arg[2][3]

\* the transition of environment i as the environment saw it in the step call
\* recorded in op: (observation the action was chosen from, action received,
\* reward returned, observation returned, done as 0/1)
SeenTransition(op, i) ==
    <<op.arg.obs[i], op.arg.actions[i], op.result.reward[i], op.result.obs[i],
      IF op.result.done[i] THEN 1 ELSE 0>>

\* the slot of the ring buffer the i-th push of a call writes
PushSlot(mem, i) == ((mem.next_idx + i - 1) % config.exp_replay_size) + 1

\* C11: a non-static DQN update call that follows a step call pushes exactly
\* one transition per parallel environment i, in environment order, and that
\* transition is (the observation of environment i the action was selected
\* from in that step, that action, the reward returned for it, the
\* observation returned by that environment step, the done flag as 0/1); every
\* other slot of the memory is left as it was.
C11_TransitionOfPrecedingStep ==
    [][ (lastOp.op = "step" /\ ~lastOp.raised /\ lastOp'.op = "update" /\ ~static_policy) =>
          /\ hist'.pushes = hist.pushes + config.num_envs
          /\ memory'.next_idx = (memory.next_idx + config.num_envs) % config.exp_replay_size
          /\ Len(memory'.storage) =
                 Min2(config.exp_replay_size, Len(memory.storage) + config.num_envs)
          /\ \A i \in Envs :
                 memory'.storage[PushSlot(memory, i)] = SeenTransition(lastOp, i)
          /\ \A k \in 1..Len(memory.storage) :
                 (\A i \in Envs : k # PushSlot(memory, i)) =>
                     memory'.storage[k] = memory.storage[k] ]_vars

\* a first update after a first step has stored the transitions of two
\* environments that took different actions, one of them ending its episode
C11_Witness ==
    /\ lastOp.op = "update" /\ lastOp.appended
    /\ calls.step = 1 /\ calls.update = 1
    /\ config.num_envs = 2
    /\ Len(memory.storage) = 2
    /\ memory.storage[1][2] # memory.storage[2][2]
    /\ memory.storage[1][1] # memory.storage[2][1]
    /\ \E k \in 1..2 : memory.storage[k][5] = 1
    /\ \E k \in 1..2 : memory.storage[k][5] = 0

\* the number of times the call e occurs in the trace tr
Occurrences(tr, e) == Cardinality({k \in DOMAIN tr : tr[k] = e})

\* the call a occurs in the trace tr, and every b in it comes later
Precedes(tr, a, b) ==
    \E k \in DOMAIN tr : tr[k] = a /\ \A j \in DOMAIN tr : tr[j] = b => k < j

\* C12: every A2C update call that completes first computes the bootstrap
\* value from the last window slot with the parameters it was entered with;
\* it learns exactly when current_tstep >= learn_start, and then computes the
\* returns from that bootstrap value, evaluates the window as it stood before
\* the rotation and applies exactly one optimizer step; last of all it
\* rotates the window by exactly one after_update call, also when learning is
\* skipped, and a call that skips learning leaves the parameters unchanged.
C12_UpdateOrder ==
    [][ (kind = "A2C" /\ lastOp'.op = "update" /\ ~lastOp'.raised) =>
          LET T == config.update_freq
              tr == lastOp'.result.trace
              nv == lastOp'.result.next_value
          IN
          /\ tr[1] = "get_values" /\ Occurrences(tr, "get_values") = 1
          /\ \A i \in Envs :
                nv[i] = VNet(model, rollouts.observations[T + 1][i], rollouts.masks[T + 1][i])
          /\ lastOp'.learned <=> lastOp'.tstep >= config.learn_start
          /\ Occurrences(tr, "optimizer.step") = IF lastOp'.learned THEN 1 ELSE 0
          /\ Occurrences(tr, "compute_returns") = IF lastOp'.learned THEN 1 ELSE 0
          /\ Occurrences(tr, "after_update") = 1 /\ tr[Len(tr)] = "after_update"
          /\ lastOp'.learned =>
                /\ Precedes(tr, "get_values", "compute_returns")
                /\ Precedes(tr, "compute_returns", "optimizer.step")
                /\ Precedes(tr, "optimizer.step", "after_update")
                /\ lastOp'.arg.observations = SubSeq(rollouts.observations, 1, T)
                /\ lastOp'.arg.masks = SubSeq(rollouts.masks, 1, T)
                /\ \A i \in Envs :
                      lastOp'.arg.returns[T][i] =
                          rollouts.rewards[T][i] + config.gamma * nv[i] * rollouts.masks[T + 1][i]
          /\ ~lastOp'.learned => model' = model
          /\ rollouts'.observations[1] = rollouts.observations[T + 1]
          /\ rollouts'.masks[1] = rollouts.masks[T + 1]
          /\ \A k \in 2..(T + 1) :
                /\ rollouts'.observations[k] = rollouts.observations[k]
                /\ rollouts'.masks[k] = rollouts.masks[k] ]_vars

\* a learning update on a full window has moved the parameters and rotated
\* the window: slot 0 now holds the last slot, and differs from the slot 0
\* the loss was evaluated on
C12_Witness ==
    /\ kind = "A2C" /\ lastOp.op = "update" /\ lastOp.learned
    /\ calls.step = config.update_freq
    /\ model # 0
    /\ rollouts.observations[1] = rollouts.observations[config.update_freq + 1]
    /\ lastOp.arg.observations[1] # rollouts.observations[1]
    /\ lastOp.arg.masks[1] # rollouts.masks[1]

\* C13: in every A2C step call that completes, for every parallel
\* environment i, the mask inserted into the rollout window is 0 exactly when
\* environment i reported done in that step and 1 otherwise; the observation
\* inserted for an environment with mask 0 is zero, and for an environment
\* with mask 1 it is the observation the environment returned, divided by
\* s_norm when s_norm is set.
C13_MaskedInsert ==
    [][ (kind = "A2C" /\ lastOp'.op = "step" /\ ~lastOp'.raised) =>
          LET slot == rollouts.step + 2 IN
          \A i \in Envs :
            /\ rollouts'.masks[slot][i] = (IF dones'[i] THEN 0 ELSE 1)
            /\ IF dones'[i] THEN rollouts'.observations[slot][i] = 0
               ELSE IF config.s_norm = 0
                    THEN rollouts'.observations[slot][i] = observations'[i]
                    ELSE rollouts'.observations[slot][i] * config.s_norm = observations'[i] ]_vars

\* a first step with s_norm = 2 in which the first environment ended its
\* episode and the second did not, both returning the observation 4
C13_Witness ==
    /\ kind = "A2C" /\ lastOp.op = "step" /\ ~lastOp.raised
    /\ calls.step = 1 /\ calls.update = 0
    /\ config.s_norm = 2
    /\ dones = <<TRUE, FALSE>>
    /\ observations = <<4, 4>>
    /\ rollouts.masks[2] = <<0, 1>>
    /\ rollouts.observations[2] = <<0, 2>>
====
